---- MODULE Spec2Model ----
(***************************************************************************)
(* A model of the agentic-workflow-builder backend:                        *)
(*   - criteria.evaluate (app/criteria.py), a pure function;               *)
(*   - the workflow execution engine _execute_workflow_background and      *)
(*     run_workflow (app/routers/runs.py) over the tables of app/models.py;*)
(*   - the workflow endpoints create_workflow, update_workflow and         *)
(*     delete_workflow (app/routers/workflows.py);                         *)
(*   - the gateway client call_llm (app/llm_unbound.py).                   *)
(* Texts are sequences of one-character strings.  A NULL text column is    *)
(* the sequence NoneText, Python's None for a kind is the string None.     *)
(***************************************************************************)
EXTENDS Integers, Sequences, FiniteSets, TLC

VARIABLES
    steps,      \* the rows of table "steps" (models.Step)
    runs,       \* the rows of table "runs" (models.Run), indexed by run id
    run_steps,  \* the rows of table "run_steps" (models.RunStep), in insertion order
    task,       \* per run id: the locals of its _execute_workflow_background coroutine
    gw_log,     \* history: every call_llm invocation of the engine, what it gave,
                \* and the backoff sleep taken after it (ms, 0 for none)
    ev,         \* the evaluator harness: inputs and result of one evaluate call
    workflows,  \* the ids of the rows of table "workflows" (models.Workflow)
    http,       \* history: the last endpoint call and the HTTP status it answered
    settings,   \* app.config.settings: which of the two gateway settings are set
    llm,        \* the locals of one call_llm invocation, with its requests and sleeps
    cx          \* the context harness: one derivation of a next step's context

vars == <<steps, runs, run_steps, task, gw_log, ev, workflows, http, settings, llm,
         cx>>

(***************************************************************************)
(* Bounds of the model.                                                    *)
(***************************************************************************)
MaxLen == 2          \* longest output text given to evaluate in SpecEval
MaxRetriesBound == 2 \* largest max_retries of a stored step (the schema allows 0..10)

(***************************************************************************)
(* Python values.                                                          *)
(***************************************************************************)
None == "<None>"
NoneText == <<"<None>">>
EmptyDict == <<>>

Whitespace == {" ", "\n"}

\* f"{x}" for a kind that may be None
PyStr(v) == IF v = None THEN "None" ELSE v

\* x or ""  for a nullable text
OrEmpty(s) == IF s = NoneText \/ s = <<>> THEN <<>> ELSE s

\* truth value of a nullable text
TruthyText(s) == s # NoneText /\ s # <<>>

\* truth value of a nullable str kind
TruthyKind(k) == k # None /\ k # ""

\* dict.get(key, default)
DictGet(d, key, default) == IF key \in DOMAIN d THEN d[key] ELSE default

\* needle in haystack, for str
IsSubstring(needle, hay) ==
    \E i \in 0..(Len(hay) - Len(needle)) :
        \A j \in 1..Len(needle) : hay[i + j] = needle[j]

RECURSIVE LStrip(_)
LStrip(s) == IF s # <<>> /\ Head(s) \in Whitespace THEN LStrip(Tail(s)) ELSE s

RECURSIVE RStrip(_)
RStrip(s) ==
    IF s # <<>> /\ s[Len(s)] \in Whitespace THEN RStrip(SubSeq(s, 1, Len(s) - 1)) ELSE s

\* str.strip()
Strip(s) == RStrip(LStrip(s))

(***************************************************************************)
(* re.search on the pattern language { literal letter, ".", "(" }.  A      *)
(* pattern holding "(" has an unterminated group: re.compile raises        *)
(* re.error.  "." matches any character but a newline, and a newline too   *)
(* under DOTALL; a letter matches itself, and its other case under         *)
(* IGNORECASE.  MULTILINE changes only "^" and "$", which the language     *)
(* does not hold.                                                          *)
(***************************************************************************)
PatternInvalid(pattern) == \E i \in 1..Len(pattern) : pattern[i] = "("

Lower(c) == IF c = "A" THEN "a" ELSE c

CharMatches(p, c, ignorecase, dotall) ==
    IF p = "." THEN (dotall \/ c # "\n")
    ELSE IF ignorecase THEN Lower(p) = Lower(c)
    ELSE p = c

ReSearch(pattern, text, ignorecase, dotall) ==
    \E i \in 0..(Len(text) - Len(pattern)) :
        \A j \in 1..Len(pattern) : CharMatches(pattern[j], text[i + j], ignorecase, dotall)

(***************************************************************************)
(* json.loads on texts over { "1", "{", "}", "a", "A", newline, space }:   *)
(* the documents are a number 1, 11, ... and an empty object, with         *)
(* whitespace allowed around the value and inside the braces.              *)
(***************************************************************************)
JsonLoadsOk(text) ==
    LET s == Strip(text) IN
    /\ s # <<>>
    /\ \/ \A i \in 1..Len(s) : s[i] = "1"
       \/ /\ Len(s) >= 2
          /\ s[1] = "{"
          /\ s[Len(s)] = "}"
          /\ \A i \in 2..(Len(s) - 1) : s[i] \in Whitespace

(***************************************************************************)
(* criteria.evaluate.  The result is CriteriaResult(passed, reason), or    *)
(* the exception that leaves the function.                                 *)
(***************************************************************************)
CriteriaResult(passed, reason) ==
    [raised |-> FALSE, passed |-> passed, reason |-> reason, exc |-> ""]

Raises(exc) ==
    [raised |-> TRUE, passed |-> FALSE, reason |-> <<>>, exc |-> exc]

\* contains with str.startswith in place of "in": the keyword is looked for at the start only
EvalContainsAtStart(output_text, criteria) ==
    LET keyword == DictGet(criteria, "keyword", <<>>) IN
    IF ~TruthyText(keyword)
    THEN CriteriaResult(FALSE, <<"contains: missing keyword">>)
    ELSE LET ok == /\ Len(keyword) <= Len(OrEmpty(output_text))
                   /\ SubSeq(OrEmpty(output_text), 1, Len(keyword)) = keyword
         IN CriteriaResult(ok,
            <<"contains: ", IF ok THEN "found" ELSE "missing", " '">> \o keyword \o <<"'">>)

EvalContains(output_text, criteria) ==
    LET keyword == DictGet(criteria, "keyword", <<>>) IN
    IF ~TruthyText(keyword)
    THEN CriteriaResult(FALSE, <<"contains: missing keyword">>)
    ELSE LET ok == IsSubstring(keyword, OrEmpty(output_text)) IN
         CriteriaResult(ok,
            <<"contains: ", IF ok THEN "found" ELSE "missing", " '">> \o keyword \o <<"'">>)

EvalRegex(output_text, criteria) ==
    LET pattern == DictGet(criteria, "pattern", <<>>)
        flags == DictGet(criteria, "flags", <<>>)
    IN
    IF ~TruthyText(pattern)
    THEN CriteriaResult(FALSE, <<"regex: missing pattern">>)
    ELSE IF PatternInvalid(pattern)
    THEN Raises("re.error")
    ELSE LET ok == ReSearch(pattern, OrEmpty(output_text),
                            IsSubstring(<<"i">>, flags), IsSubstring(<<"s">>, flags))
         IN CriteriaResult(ok, <<"regex: ", IF ok THEN "matched" ELSE "no match">>)

EvalJsonValid(output_text) ==
    IF JsonLoadsOk(OrEmpty(output_text))
    THEN CriteriaResult(TRUE, <<"json_valid: parsed">>)
    ELSE CriteriaResult(FALSE, <<"json_valid: parse failed (", "JSONDecodeError", ")">>)

\* an unknown kind that passes silently
EvalUnknownPasses(ctype) ==
    CriteriaResult(TRUE, <<"unknown criteria type: ", PyStr(ctype)>>)

EvalUnknown(ctype) ==
    CriteriaResult(FALSE, <<"unknown criteria type: ", PyStr(ctype)>>)

evaluate(output_text, criteria) ==
    IF DOMAIN criteria = {} \/ "type" \notin DOMAIN criteria
    THEN CriteriaResult(TRUE, <<"no_criteria">>)
    ELSE LET ctype == criteria["type"] IN
         IF ctype = "contains" THEN EvalContains(output_text, criteria)
         ELSE IF ctype = "regex" THEN EvalRegex(output_text, criteria)
         ELSE IF ctype = "json_valid" THEN EvalJsonValid(output_text)
         ELSE EvalUnknown(ctype)

(***************************************************************************)
(* runs._build_criteria and the engine's call of evaluate for one output.  *)
(***************************************************************************)
build_criteria(step) ==
    IF ~TruthyKind(step.criteria_type) THEN [type |-> None]
    ELSE IF step.criteria_type = "contains"
    THEN [type |-> "contains", keyword |-> OrEmpty(step.criteria_value)]
    ELSE IF step.criteria_type = "regex"
    THEN [type |-> "regex", pattern |-> OrEmpty(step.criteria_value), flags |-> <<"s">>]
    ELSE IF step.criteria_type = "json_valid" THEN [type |-> "json_valid"]
    ELSE [type |-> step.criteria_type]

\* runs.py lines 115-119: criteria is the dict line 83 built for the step,
\* step.criteria_type is read from the step object at the time of the call
EngineEvaluate(output_text, step, criteria) ==
    IF ~TruthyKind(step.criteria_type)
    THEN evaluate(output_text, EmptyDict)
    ELSE evaluate(output_text, criteria)

StepEvaluate(output_text, step) ==
    EngineEvaluate(output_text, step, build_criteria(step))

(***************************************************************************)
(* Program constants of the engine.                                        *)
(***************************************************************************)
SentinelOrder == 999999   \* step_order of the synthetic internal-error row
NullId == 0               \* step_id = None (row ids start at 1)
InstructBuffer == 2       \* extra attempts of model kimi-k2-instruct-0905
DefaultBuffer == 1        \* extra attempts of every other model

AllowedModels == {"kimi-k2p5", "kimi-k2-instruct-0905"}

(***************************************************************************)
(* The inputs the model draws from.                                        *)
(***************************************************************************)
\* step_order lists of the stored workflow (unique, any integers >= 1)
StepOrderLists == {<<1>>, <<2, 5>>, <<1000000>>}

\* (criteria_type, criteria_value) of a stored step, as the schema accepts them
StepCriteriaChoices ==
    { <<None, NoneText>>, <<"contains", <<"a">>>>, <<"regex", <<"(">>>> }

\* the texts call_llm returns (never empty: call_llm raises on an empty text)
Outputs == { <<"a">>, <<"1">> }

\* what one call_llm invocation gives the engine
GatewayResults ==
    {[kind |-> "text", text |-> o] : o \in Outputs}
    \cup {[kind |-> "UnboundError", text |-> <<"Network ReadError after retries">>],
          [kind |-> "Exception", text |-> <<"JSONDecodeError">>]}

\* config.py lines 8-9: each of the two settings is set (TRUE) or the empty string
SettingsChoices == [unbound_chat_url : BOOLEAN, unbound_api_key : BOOLEAN]

AllSet == [unbound_chat_url |-> TRUE, unbound_api_key |-> TRUE]

\* llm_unbound.py lines 35-38: the message of the UnboundError a missing setting gives
ConfigError(cfg) ==
    IF ~cfg.unbound_chat_url THEN <<"UNBOUND_CHAT_URL is missing in .env">>
    ELSE <<"UNBOUND_API_KEY is missing in .env">>

\* what call_llm gives under the settings cfg: with one missing, lines 35-38 raise
\* before anything else happens
ResultsOfCall(cfg) ==
    IF cfg = AllSet THEN GatewayResults
    ELSE {[kind |-> "UnboundError", text |-> ConfigError(cfg)]}

StepConfigs ==
    [model : AllowedModels,
     max_retries : 0..MaxRetriesBound,
     criteria : StepCriteriaChoices]

NewStep(id, workflow_id, order, cfg) ==
    [id |-> id, workflow_id |-> workflow_id, step_order |-> order, model |-> cfg.model,
     prompt |-> <<"p", "\n">>,
     criteria_type |-> cfg.criteria[1], criteria_value |-> cfg.criteria[2],
     max_retries |-> cfg.max_retries, context_mode |-> "full"]

StepRow(id, order, cfg) == NewStep(id, 1, order, cfg)

(***************************************************************************)
(* Helpers of runs.py.                                                     *)
(***************************************************************************)
inject_context(prompt, context) ==
    IF Strip(context) = <<>> THEN Strip(prompt)
    ELSE <<"### CONTEXT (output from previous step)\n">> \o Strip(context)
         \o <<"\n\n", "### CURRENT TASK\n">> \o Strip(prompt)

context_from_output(output_text, context_mode) == output_text

ExtraNetworkBuffer(model) ==
    IF model = "kimi-k2-instruct-0905" THEN InstructBuffer ELSE DefaultBuffer

\* a budget that forgets the network buffer
TotalAttemptsNoBuffer(step) == step.max_retries + 1

TotalAttempts(step) == (step.max_retries + ExtraNetworkBuffer(step.model)) + 1

\* db.query(Step).filter(workflow_id == w).order_by(step_order.asc()).all()
RECURSIVE SortByOrder(_)
SortByOrder(S) ==
    IF S = {} THEN <<>>
    ELSE LET m == CHOOSE s \in S : \A t \in S : s.step_order <= t.step_order
         IN <<m>> \o SortByOrder(S \ {m})

OrderedSteps(workflow_id) == SortByOrder({s \in steps : s.workflow_id = workflow_id})

\* the ids the table "runs" hands out: the model starts one run
RunIds == {1}

(***************************************************************************)
(* Rows.                                                                   *)
(***************************************************************************)
RunRow(workflow_id) ==
    [workflow_id |-> workflow_id, status |-> "RUNNING", ended_at |-> "NULL"]

\* a row that takes its run id from a place all runs share
AttemptRowSharedRun(r, step, status, attempt_no, prompt, output, criteria_result, error) ==
    [run_id |-> 1, step_id |-> step.id, step_order |-> step.step_order,
     status |-> status, attempt_no |-> attempt_no, prompt_used |-> prompt,
     output |-> output, criteria_result |-> criteria_result, error |-> error]

AttemptRow(r, step, status, attempt_no, prompt, output, criteria_result, error) ==
    [run_id |-> r, step_id |-> step.id, step_order |-> step.step_order,
     status |-> status, attempt_no |-> attempt_no, prompt_used |-> prompt,
     output |-> output, criteria_result |-> criteria_result, error |-> error]

SyntheticRow(r, error) ==
    [run_id |-> r, step_id |-> NullId, step_order |-> SentinelOrder,
     status |-> "ERROR", attempt_no |-> 1, prompt_used |-> <<"(system)">>,
     output |-> NoneText, criteria_result |-> NoneText, error |-> error]

\* a gateway error stored under the status of a criteria failure
ErrorRowAsFailed(r, step, t, error) ==
    AttemptRow(r, step, "FAILED", t.attempt_no, t.final_prompt, NoneText, NoneText, error)

\* an ERROR row that keeps the output of the step's last answered attempt
ErrorRowKeepsOutput(r, step, t, error) ==
    AttemptRow(r, step, "ERROR", t.attempt_no, t.final_prompt, OrEmpty(t.last_output),
               NoneText, error)

\* lines 145-155: the row of an attempt that ended in an UnboundError
ErrorRow(r, step, t, error) ==
    AttemptRow(r, step, "ERROR", t.attempt_no, t.final_prompt, NoneText, NoneText, error)

Terminal(run, status) == [run EXCEPT !.status = status, !.ended_at = "utcnow"]

(***************************************************************************)
(* The coroutine's locals.  pc is the place the coroutine is at:           *)
(*   "start"      scheduled, before line 57                                *)
(*   "attempt"    at the head of one iteration of the attempt loop         *)
(*   "after_loop" at line 166, the attempt loop left                       *)
(*   "handler"    an exception reached the top-level except (line 181)     *)
(*   "done"       returned                                                 *)
(* steps holds the Step objects of the coroutine's session as they were    *)
(* last loaded.  The session is made by SessionLocal (db.py line 14, so    *)
(* with expire_on_commit): every db.commit() expires the objects, and the  *)
(* next read of an attribute of an expired object loads its row again by   *)
(* its primary key.  expired says that the object of the current step has  *)
(* not been read since the last commit.                                    *)
(***************************************************************************)
NewTask(workflow_id) ==
    [pc |-> "start", workflow_id |-> workflow_id, steps |-> <<>>, i |-> 0,
     attempt_no |-> 0, total_attempts |-> 0, final_prompt |-> <<>>,
     criteria |-> EmptyDict, expired |-> FALSE,
     context |-> <<>>, step_passed |-> FALSE, last_output |-> NoneText,
     exc |-> <<>>,
     \* history: the steps of the workflow when run_workflow created the run
     began_with |-> OrderedSteps(workflow_id)]

\* the row an expired Step object is loaded from: the row of table "steps"
\* with the object's primary key, if there is one
RowsOfObject(obj) == {s \in steps : s.id = obj.id}

\* the object's row is gone: reading an attribute raises ObjectDeletedError
Deleted(obj) == RowsOfObject(obj) = {}

Reloaded(obj) == CHOOSE s \in steps : s.id = obj.id

ObjectDeleted == <<"ObjectDeletedError">>

\* lines 81-99: the head of the step loop for the step at index i
EnterStep(t, loaded, i, context) ==
    [t EXCEPT !.pc = "attempt", !.steps = loaded, !.i = i, !.context = context,
              !.final_prompt = inject_context(loaded[i].prompt, context),
              !.criteria = build_criteria(loaded[i]), !.expired = FALSE,
              !.total_attempts = TotalAttempts(loaded[i]),
              !.attempt_no = 1, !.step_passed = FALSE, !.last_output = NoneText]

\* an exception that is no UnboundError leaves the try block
Escape(t, error) == [t EXCEPT !.pc = "handler", !.exc = error]

\* a loop that builds the prompt again for every attempt, from the step's last
\* output
NextIterationReprompts(t) ==
    IF t.attempt_no < t.total_attempts
    THEN [t EXCEPT !.attempt_no = t.attempt_no + 1,
                   !.context = OrEmpty(t.last_output),
                   !.final_prompt = inject_context(t.steps[t.i].prompt,
                                                   OrEmpty(t.last_output))]
    ELSE [t EXCEPT !.pc = "after_loop"]

\* the for statement at line 101 takes its next value or ends
NextIteration(t) ==
    IF t.attempt_no < t.total_attempts
    THEN [t EXCEPT !.attempt_no = t.attempt_no + 1]
    ELSE [t EXCEPT !.pc = "after_loop"]

CommitFailed == <<"OperationalError">>

(***************************************************************************)
(* run_workflow, lines 219-246.                                            *)
(***************************************************************************)
Response(op, status) == [op |-> op, status |-> status]

\* run_workflow without the check of lines 230-236
StartRunNoStepCheck(workflow_id, ids) ==
    /\ Len(runs) + 1 \in ids
    /\ IF workflow_id \notin workflows
       THEN /\ http' = Response("run_workflow", 404)
            /\ UNCHANGED <<runs, task>>
       ELSE \E fault \in BOOLEAN :
               IF ~fault
               THEN /\ runs' = Append(runs, RunRow(workflow_id))
                    /\ task' = Append(task, NewTask(workflow_id))
                    /\ http' = Response("run_workflow", 201)
               ELSE /\ http' = Response("run_workflow", 500)
                    /\ UNCHANGED <<runs, task>>
    /\ UNCHANGED <<steps, run_steps, gw_log, ev, cx, workflows, settings, llm>>

NoResponse == Response("none", 0)

\* ids is the set of ids the table "runs" may hand out
StartRun(workflow_id, ids) ==
    /\ Len(runs) + 1 \in ids
    /\ IF workflow_id \notin workflows
       THEN \* lines 226-228
            /\ http' = Response("run_workflow", 404)
            /\ UNCHANGED <<runs, task>>
       ELSE IF {s \in steps : s.workflow_id = workflow_id} = {}
       THEN \* lines 230-236
            /\ http' = Response("run_workflow", 400)
            /\ UNCHANGED <<runs, task>>
       ELSE \* lines 238-246; fault: the commit of line 240 raises
            \E fault \in BOOLEAN :
               IF ~fault
               THEN /\ runs' = Append(runs, RunRow(workflow_id))
                    /\ task' = Append(task, NewTask(workflow_id))
                    /\ http' = Response("run_workflow", 201)
               ELSE /\ http' = Response("run_workflow", 500)
                    /\ UNCHANGED <<runs, task>>
    /\ UNCHANGED <<steps, run_steps, gw_log, ev, cx, workflows, settings, llm>>

run_workflow(workflow_id) == StartRun(workflow_id, RunIds)

(***************************************************************************)
(* _execute_workflow_background, lines 57-99: load the run and the steps.  *)
(***************************************************************************)
\* a start that takes a workflow without steps as done: COMPLETED, not FAILED
BeginEmptyCompletes(r) ==
    /\ task[r].pc = "start"
    /\ LET t == task[r]
           loaded == OrderedSteps(t.workflow_id)
       IN IF loaded = <<>>
          THEN /\ runs' = [runs EXCEPT ![r] = Terminal(runs[r], "COMPLETED")]
               /\ task' = [task EXCEPT ![r].pc = "done"]
          ELSE /\ runs' = runs
               /\ task' = [task EXCEPT ![r] = EnterStep(t, loaded, 1, <<>>)]
    /\ UNCHANGED <<steps, run_steps, gw_log, ev, cx, workflows, http, settings, llm>>

Begin(r) ==
    /\ task[r].pc = "start"
    /\ LET t == task[r]
           loaded == OrderedSteps(t.workflow_id)
       IN IF loaded = <<>>
          THEN \E fault \in BOOLEAN :
                 IF ~fault
                 THEN /\ runs' = [runs EXCEPT ![r] = Terminal(runs[r], "FAILED")]
                      /\ task' = [task EXCEPT ![r].pc = "done"]
                 ELSE /\ runs' = runs
                      /\ task' = [task EXCEPT ![r] = Escape(t, CommitFailed)]
          ELSE /\ runs' = runs
               /\ task' = [task EXCEPT ![r] = EnterStep(t, loaded, 1, <<>>)]
    /\ UNCHANGED <<steps, run_steps, gw_log, ev, cx, workflows, http, settings, llm>>

(***************************************************************************)
(* The backoff of the attempt loop, line 163: asyncio.sleep(0.8 *          *)
(* attempt_no), in milliseconds.                                           *)
(***************************************************************************)
AttemptSleepMs == 800

\* a backoff of the same length after every attempt
BackoffDelayFlat(attempt_no) == AttemptSleepMs

BackoffDelay(attempt_no) == AttemptSleepMs * attempt_no

(***************************************************************************)
(* One iteration of the attempt loop, lines 101-164.  res is what call_llm *)
(* gives; fault says that the db.commit() of the iteration raises.         *)
(***************************************************************************)
\* an iteration without the break of line 139: the loop goes on after a pass
AttemptOutcomeNoBreak(r, t, res, fault) ==
    LET step == t.steps[t.i] IN
    IF res.kind = "UnboundError"
    THEN \* lines 143-164
         IF ~fault
         THEN [rows |-> <<ErrorRow(r, step, t, res.text)>>,
               sleep |-> BackoffDelay(t.attempt_no),
               task |-> NextIteration(t)]
         ELSE [rows |-> <<>>, sleep |-> 0, task |-> Escape(t, CommitFailed)]
    ELSE IF res.kind = "Exception"
    THEN [rows |-> <<>>, sleep |-> 0, task |-> Escape(t, res.text)]
    ELSE \* lines 113-139
         LET crit_res == EngineEvaluate(res.text, step, t.criteria)
             t1 == [t EXCEPT !.last_output = res.text]
         IN IF crit_res.raised
            THEN [rows |-> <<>>, sleep |-> 0, task |-> Escape(t1, <<crit_res.exc>>)]
            ELSE IF fault
            THEN [rows |-> <<>>, sleep |-> 0, task |-> Escape(t1, CommitFailed)]
            ELSE [rows |-> <<AttemptRow(r, step,
                                        IF crit_res.passed THEN "PASSED" ELSE "FAILED",
                                        t.attempt_no, t.final_prompt, res.text,
                                        crit_res.reason, NoneText)>>,
                  sleep |-> 0,
                  task |-> IF crit_res.passed
                           THEN NextIteration([t1 EXCEPT !.step_passed = TRUE])
                           ELSE NextIteration(t1)]

AttemptOutcome(r, t, res, fault) ==
    LET step == t.steps[t.i] IN
    IF res.kind = "UnboundError"
    THEN \* lines 143-164
         IF ~fault
         THEN [rows |-> <<ErrorRow(r, step, t, res.text)>>,
               sleep |-> BackoffDelay(t.attempt_no),
               task |-> NextIteration(t)]
         ELSE [rows |-> <<>>, sleep |-> 0, task |-> Escape(t, CommitFailed)]
    ELSE IF res.kind = "Exception"
    THEN [rows |-> <<>>, sleep |-> 0, task |-> Escape(t, res.text)]
    ELSE \* lines 113-139
         LET crit_res == EngineEvaluate(res.text, step, t.criteria)
             t1 == [t EXCEPT !.last_output = res.text]
         IN IF crit_res.raised
            THEN [rows |-> <<>>, sleep |-> 0, task |-> Escape(t1, <<crit_res.exc>>)]
            ELSE IF fault
            THEN [rows |-> <<>>, sleep |-> 0, task |-> Escape(t1, CommitFailed)]
            ELSE [rows |-> <<AttemptRow(r, step,
                                        IF crit_res.passed THEN "PASSED" ELSE "FAILED",
                                        t.attempt_no, t.final_prompt, res.text,
                                        crit_res.reason, NoneText)>>,
                  sleep |-> 0,
                  task |-> IF crit_res.passed
                           THEN [t1 EXCEPT !.step_passed = TRUE, !.pc = "after_loop"]
                           ELSE NextIteration(t1)]

\* line 106 reads step.model: an expired step object is loaded again first
Attempt(r) ==
    /\ task[r].pc = "attempt"
    /\ IF task[r].expired /\ Deleted(task[r].steps[task[r].i])
       THEN /\ task' = [task EXCEPT ![r] = Escape(task[r], ObjectDeleted)]
            /\ UNCHANGED <<gw_log, run_steps>>
       ELSE \E res \in ResultsOfCall(settings), fault \in BOOLEAN :
              LET t0 == task[r]
                  t == IF t0.expired
                       THEN [t0 EXCEPT !.steps[t0.i] = Reloaded(t0.steps[t0.i])]
                       ELSE t0
                  out == AttemptOutcome(r, t, res, fault)
              IN /\ gw_log' = Append(gw_log,
                         [run_id |-> r, step_order |-> t.steps[t.i].step_order,
                          attempt_no |-> t.attempt_no, prompt |-> t.final_prompt,
                          kind |-> res.kind, text |-> res.text,
                          sleep |-> out.sleep])
                 /\ run_steps' = run_steps \o out.rows
                 \* the commit, or the rollback after it failed, expires the objects
                 /\ task' = [task EXCEPT ![r] = [out.task EXCEPT !.expired = TRUE]]
    /\ UNCHANGED <<steps, runs, ev, cx, workflows, http, settings, llm>>

(***************************************************************************)
(* After the attempt loop, lines 166-179 and the next step's head.         *)
(***************************************************************************)
\* the step loop without "if not step_passed": a failed step is taken as passed
AfterLoopNoCheck(r, t, fault) ==
    LET context == context_from_output(OrEmpty(t.last_output), t.steps[t.i].context_mode)
    IN IF t.i < Len(t.steps)
       THEN [run |-> runs[r], task |-> EnterStep(t, t.steps, t.i + 1, context)]
       ELSE IF ~fault
            THEN [run |-> Terminal(runs[r], "COMPLETED"),
                  task |-> [t EXCEPT !.pc = "done", !.context = context]]
            ELSE [run |-> runs[r],
                  task |-> Escape([t EXCEPT !.context = context], CommitFailed)]

\* the failure branch without its "return": FAILED is stored and the loop goes on
AfterLoopNoReturn(r, t, fault) ==
    IF ~t.step_passed /\ fault
    THEN [run |-> runs[r], task |-> Escape(t, CommitFailed)]
    ELSE LET run == IF t.step_passed THEN runs[r] ELSE Terminal(runs[r], "FAILED")
             context == context_from_output(OrEmpty(t.last_output),
                                            t.steps[t.i].context_mode)
         IN IF t.i < Len(t.steps)
            THEN [run |-> run, task |-> EnterStep(t, t.steps, t.i + 1, context)]
            ELSE IF ~fault
                 THEN [run |-> Terminal(run, "COMPLETED"),
                       task |-> [t EXCEPT !.pc = "done", !.context = context]]
                 ELSE [run |-> run,
                       task |-> Escape([t EXCEPT !.context = context], CommitFailed)]

AfterLoopOutcome(r, t, fault) ==
    IF ~t.step_passed
    THEN \* lines 166-171
         IF ~fault
         THEN [run |-> Terminal(runs[r], "FAILED"), task |-> [t EXCEPT !.pc = "done"]]
         ELSE [run |-> runs[r], task |-> Escape(t, CommitFailed)]
    ELSE IF Deleted(t.steps[t.i])
    THEN \* line 174 reads step.context_mode of the expired object
         [run |-> runs[r], task |-> Escape(t, ObjectDeleted)]
    ELSE LET context == context_from_output(OrEmpty(t.last_output),
                                            Reloaded(t.steps[t.i]).context_mode)
             t1 == [t EXCEPT !.context = context]
         IN IF t.i < Len(t.steps)
            THEN \* line 82 reads step.prompt of the next, expired object
                 IF Deleted(t.steps[t.i + 1])
                 THEN [run |-> runs[r], task |-> Escape(t1, ObjectDeleted)]
                 ELSE [run |-> runs[r],
                       task |-> EnterStep(t,
                                   [t.steps EXCEPT ![t.i + 1] = Reloaded(t.steps[t.i + 1])],
                                   t.i + 1, context)]
            ELSE \* lines 176-179
                 IF ~fault
                 THEN [run |-> Terminal(runs[r], "COMPLETED"),
                       task |-> [t EXCEPT !.pc = "done", !.context = context]]
                 ELSE [run |-> runs[r],
                       task |-> Escape([t EXCEPT !.context = context], CommitFailed)]

AfterLoop(r) ==
    /\ task[r].pc = "after_loop"
    /\ \E fault \in BOOLEAN :
         LET out == AfterLoopOutcome(r, task[r], fault)
         IN /\ runs' = [runs EXCEPT ![r] = out.run]
            /\ task' = [task EXCEPT ![r] = out.task]
    /\ UNCHANGED <<steps, run_steps, gw_log, ev, cx, workflows, http, settings, llm>>

(***************************************************************************)
(* The top-level handler, lines 181-207.  Its own query or commit may      *)
(* raise as well (fault); the inner "except Exception: pass" swallows that *)
(* and nothing is stored.                                                  *)
(***************************************************************************)
HandlerOutcome(r, t, fault) ==
    IF ~fault
    THEN [run |-> Terminal(runs[r], "FAILED"), rows |-> <<SyntheticRow(r, t.exc)>>]
    ELSE [run |-> runs[r], rows |-> <<>>]

Handler(r) ==
    /\ task[r].pc = "handler"
    /\ \E fault \in BOOLEAN :
         LET out == HandlerOutcome(r, task[r], fault)
         IN /\ runs' = [runs EXCEPT ![r] = out.run]
            /\ run_steps' = run_steps \o out.rows
    /\ task' = [task EXCEPT ![r].pc = "done"]
    /\ UNCHANGED <<steps, gw_log, ev, cx, workflows, http, settings, llm>>

(***************************************************************************)
(* call_llm, app/llm_unbound.py lines 26-115.  llm holds the invocation:   *)
(*   pc        "idle" before the call, "post" at the head of an iteration  *)
(*             of the loop of line 70, "backoff" in the handler of line    *)
(*             102, "returned" and "raised" when the call is over          *)
(*   attempt   the loop variable                                           *)
(*   requests  history: what each client.post of line 78 gave              *)
(*   sleeps    history: the asyncio.sleep durations, in milliseconds       *)
(*   result    what the call returned or raised                            *)
(***************************************************************************)
GatewayAttempts == 3      \* range(1, 4), line 70
BaseSleepMs == 600        \* 0.6 * attempt, line 106

RETRYABLE_STATUS_CODES == {429, 502, 503, 504}

\* random.uniform(0.0, 0.25), line 107, in milliseconds: the ends and the middle
Jitters == {0, 125, 250}

\* the exceptions of line 102, and one httpx.RequestError that is none of them
RetriedExceptions == {"ReadError", "RemoteProtocolError", "ReadTimeout", "ConnectTimeout"}

OtherRequestErrors == {"ConnectError"}

\* the bodies of a response below 400: JSON with choices[0].message.content, JSON
\* with the key "output" only, a JSON object without text, a JSON list, no JSON
Bodies == {"content", "output", "no_text", "list", "not_json"}

Statuses == {200, 400, 500} \cup RETRYABLE_STATUS_CODES

\* what one client.post gives: a response, or an httpx exception
HttpOutcomes ==
    {[kind |-> "response", status |-> 200, body |-> b, exc |-> ""] : b \in Bodies}
    \cup {[kind |-> "response", status |-> st, body |-> "error", exc |-> ""] :
              st \in Statuses \ {200}}
    \cup {[kind |-> "exception", status |-> 0, body |-> "", exc |-> e] :
              e \in RetriedExceptions \cup OtherRequestErrors}

NoResult == [kind |-> "none", text |-> <<>>]

LlmIdle ==
    [pc |-> "idle", attempt |-> 0, requests |-> <<>>, sleeps |-> <<>>,
     result |-> NoResult]

LlmRaise(l, kind, text) ==
    [l EXCEPT !.pc = "raised", !.result = [kind |-> kind, text |-> text]]

\* lines 35-67: the settings are checked before the loop
CallLlm ==
    /\ llm.pc = "idle"
    /\ llm' = IF ~settings.unbound_chat_url \/ ~settings.unbound_api_key
              THEN LlmRaise(llm, "UnboundError", ConfigError(settings))
              ELSE [llm EXCEPT !.pc = "post", !.attempt = 1]
    /\ UNCHANGED <<steps, runs, run_steps, task, gw_log, ev, cx, workflows, http, settings>>

\* lines 71-100 and the except clauses that catch what they raise
PostOutcome(l, o) ==
    IF o.kind = "exception"
    THEN IF o.exc \in RetriedExceptions
         THEN [l EXCEPT !.pc = "backoff"]                                \* line 102
         ELSE LlmRaise(l, "UnboundError", <<"Network error calling Unbound">>) \* 111-113
    ELSE IF o.status \in RETRYABLE_STATUS_CODES
    THEN [l EXCEPT !.pc = "backoff"]              \* lines 81-83, caught at line 102
    ELSE IF o.status >= 400
    THEN [l EXCEPT !.pc = "backoff"]              \* lines 85-86, caught at line 102
    ELSE IF o.body = "not_json"
    THEN LlmRaise(l, "Exception", <<"JSONDecodeError">>)            \* line 88
    ELSE IF o.body = "list"
    THEN LlmRaise(l, "Exception", <<"AttributeError">>)             \* line 95
    ELSE IF o.body = "no_text"
    THEN [l EXCEPT !.pc = "backoff"]              \* lines 97-98, caught at line 102
    ELSE [l EXCEPT !.pc = "returned",
                   !.result = [kind |-> "text", text |-> <<"a">>]]  \* line 100

Post ==
    /\ llm.pc = "post"
    /\ \E o \in HttpOutcomes :
         llm' = PostOutcome([llm EXCEPT !.requests = Append(llm.requests, o)], o)
    /\ UNCHANGED <<steps, runs, run_steps, task, gw_log, ev, cx, workflows, http, settings>>

\* a sleep that does not grow with the attempt
BackoffFlat(attempt, jitter) == BaseSleepMs + jitter

\* lines 106-108
BackoffSleep(attempt, jitter) == BaseSleepMs * attempt + jitter

\* lines 103-109, then the next iteration, or line 115 when the loop is over
Backoff ==
    /\ llm.pc = "backoff"
    /\ \E jitter \in Jitters :
         LET slept == [llm EXCEPT !.sleeps = Append(llm.sleeps,
                                                   BackoffSleep(llm.attempt, jitter))]
         IN llm' = IF llm.attempt < GatewayAttempts
                   THEN [slept EXCEPT !.pc = "post", !.attempt = llm.attempt + 1]
                   ELSE LlmRaise(slept, "UnboundError",
                                 <<"Network ReadError after retries">>)
    /\ UNCHANGED <<steps, runs, run_steps, task, gw_log, ev, cx, workflows, http, settings>>

(***************************************************************************)
(* The workflow endpoints, app/routers/workflows.py.  Of a workflow the    *)
(* model keeps its id and its steps (not its name or dates).  The tables   *)
(* are SQLite tables with an INTEGER PRIMARY KEY (db.py line 7, models.py  *)
(* lines 13 and 28): a new row gets the largest id in the table plus one.  *)
(* fault says that the flush or commit of the handler raises: the request  *)
(* is answered 500 and nothing is stored.                                  *)
(***************************************************************************)
\* the ids the table "workflows" may hold in the model: one workflow at a time
WorkflowIds == {1}

\* the workflow ids the requests name: the one that may be stored, and one never stored
RequestedIds == {1, 2}

\* a step of a request body (schemas.StepCreate)
PayloadStep(order, criteria) ==
    [step_order |-> order,
     cfg |-> [model |-> "kimi-k2p5", max_retries |-> 0, criteria |-> criteria]]

\* the step lists of the request bodies: none, one, two out of order, a duplicate
Payloads ==
    { <<>>,
      <<PayloadStep(1, <<"contains", <<"a">>>>)>>,
      <<PayloadStep(3, <<None, NoneText>>), PayloadStep(2, <<None, NoneText>>)>>,
      <<PayloadStep(1, <<None, NoneText>>), PayloadStep(1, <<"contains", <<"a">>>>)>> }

SetMax(S) == CHOOSE m \in S : \A x \in S : x <= m

NextId(ids) == IF ids = {} THEN 1 ELSE SetMax(ids) + 1

\* a uniqueness check that never raises
DuplicatesIgnored(payload) == FALSE

\* _ensure_unique_step_orders, lines 15-21: TRUE when it raises HTTP 400
DuplicateOrders(payload) ==
    Len(payload) # Cardinality({payload[k].step_order : k \in DOMAIN payload})

\* the rows db.add(step) inserts into table for the steps of payload
InsertedSteps(table, workflow_id, payload) ==
    LET first == NextId({s.id : s \in table})
    IN {NewStep(first + k - 1, workflow_id, payload[k].step_order, payload[k].cfg) :
            k \in DOMAIN payload}

\* lines 24-47
create_workflow(payload) ==
    LET wf_id == NextId(workflows) IN
    /\ wf_id \in WorkflowIds
    /\ IF DuplicateOrders(payload)
       THEN /\ http' = Response("create_workflow", 400)
            /\ UNCHANGED <<workflows, steps>>
       ELSE \E fault \in BOOLEAN :
               IF ~fault
               THEN /\ workflows' = workflows \cup {wf_id}
                    /\ steps' = steps \cup InsertedSteps(steps, wf_id, payload)
                    /\ http' = Response("create_workflow", 201)
               ELSE /\ http' = Response("create_workflow", 500)
                    /\ UNCHANGED <<workflows, steps>>
    /\ UNCHANGED <<runs, run_steps, task, gw_log, ev, cx, settings, llm>>

\* lines 82-110
update_workflow(workflow_id, payload) ==
    /\ IF DuplicateOrders(payload)
       THEN /\ http' = Response("update_workflow", 400)
            /\ steps' = steps
       ELSE IF workflow_id \notin workflows
       THEN /\ http' = Response("update_workflow", 404)
            /\ steps' = steps
       ELSE \E fault \in BOOLEAN :
               IF ~fault
               THEN LET kept == {s \in steps : s.workflow_id # workflow_id}
                    IN /\ steps' = kept \cup InsertedSteps(kept, workflow_id, payload)
                       /\ http' = Response("update_workflow", 200)
               ELSE /\ http' = Response("update_workflow", 500)
                    /\ steps' = steps
    /\ UNCHANGED <<workflows, runs, run_steps, task, gw_log, ev, cx, settings, llm>>

\* lines 113-121: db.delete(wf) deletes the workflow's steps with it (models.py
\* line 22, cascade); its runs stay
delete_workflow(workflow_id) ==
    /\ IF workflow_id \notin workflows
       THEN /\ http' = Response("delete_workflow", 404)
            /\ UNCHANGED <<workflows, steps>>
       ELSE \E fault \in BOOLEAN :
               IF ~fault
               THEN /\ workflows' = workflows \ {workflow_id}
                    /\ steps' = {s \in steps : s.workflow_id # workflow_id}
                    /\ http' = Response("delete_workflow", 204)
               ELSE /\ http' = Response("delete_workflow", 500)
                    /\ UNCHANGED <<workflows, steps>>
    /\ UNCHANGED <<runs, run_steps, task, gw_log, ev, cx, settings, llm>>

(***************************************************************************)
(* get_run, lines 250-269: the rows of the run ordered by step_order, then *)
(* attempt_no (line 258).  Rows with equal keys come in an order the       *)
(* database chooses, so get_run is the set of the lists it may answer.     *)
(***************************************************************************)
RowKeyLess(a, b) ==
    \/ a.step_order < b.step_order
    \/ a.step_order = b.step_order /\ a.attempt_no < b.attempt_no

\* the orderings of the rows with indices K that ORDER BY allows
RECURSIVE OrderedReads(_)
OrderedReads(K) ==
    IF K = {} THEN {<<>>}
    ELSE UNION { { <<run_steps[m]>> \o rest : rest \in OrderedReads(K \ {m}) } :
                 m \in {k \in K : \A j \in K : ~RowKeyLess(run_steps[j], run_steps[k])} }

get_run(run_id) ==
    OrderedReads({k \in DOMAIN run_steps : run_steps[k].run_id = run_id})

(***************************************************************************)
(* The context helpers of app/runner.py.  In the texts given to them a     *)
(* fence of three backticks is one element, Fence; backticks occur in them *)
(* only as whole fences.                                                   *)
(***************************************************************************)
Fence == "<fence>"

\* \w of the regular expressions, on the characters of the model
WordChars == {"a", "A", "1", "_", "p", "y", "t", "h", "o", "n"}

\* the length of the longest prefix of s made of elements of S
PrefixLen(s, S) ==
    CHOOSE n \in 0..Len(s) :
        /\ \A i \in 1..n : s[i] \in S
        /\ (n = Len(s) \/ s[n + 1] \notin S)

\* s[n:]
Drop(s, n) == SubSeq(s, n + 1, Len(s))

\* the index of the first fence of s, 0 when it has none: s.find(fence)
FindFence(s) ==
    IF \E i \in 1..Len(s) : s[i] = Fence
    THEN CHOOSE i \in 1..Len(s) : s[i] = Fence /\ \A j \in 1..(i - 1) : s[j] # Fence
    ELSE 0

\* _CODE_BLOCK_RE.search(text): the group of the leftmost match, NoneText when
\* nothing matches.  The match starts at the first fence that has a fence after
\* it; the optional \w+ and the \s* take all they can, the lazy group ends at
\* the next fence.
CodeBlockSearch(text) ==
    LET open == FindFence(text)
        rest == Drop(text, open)
        close == FindFence(rest)
        word == PrefixLen(rest, WordChars)
        space == PrefixLen(Drop(rest, word), Whitespace)
    IN  IF open = 0 \/ close = 0 THEN NoneText
        ELSE SubSeq(rest, word + space + 1, close - 1)

\* re.sub(r"^\w+\s*\n", "", after)
DropLanguageLine(after) ==
    LET word == PrefixLen(after, WordChars)
        space == PrefixLen(Drop(after, word), Whitespace)
        newlines == {i \in 1..space : after[word + i] = "\n"}
    IN  IF word = 0 \/ newlines = {} THEN after
        ELSE Drop(after, word + CHOOSE i \in newlines : \A j \in newlines : j <= i)

extract_first_code_block(text) ==
    IF ~TruthyText(text) THEN NoneText
    ELSE IF CodeBlockSearch(text) # NoneText THEN Strip(CodeBlockSearch(text))
    ELSE IF FindFence(text) # 0
         THEN Strip(DropLanguageLine(Drop(text, FindFence(text))))
    ELSE NoneText

\* the f-string of line 60: a fence tagged python, the code, a closing fence
PythonFence(code) ==
    <<Fence, "p", "y", "t", "h", "o", "n", "\n">> \o code \o <<"\n", Fence>>

runner_context_from_output(output_text, mode) ==
    IF mode = "code_only"
    THEN LET code == extract_first_code_block(output_text) IN
         IF TruthyText(code) THEN PythonFence(code) ELSE output_text
    ELSE output_text

(***************************************************************************)
(* The context harness: one derivation of the next step's context from a   *)
(* passing output, by the helper of the engine (routers/runs.py) or by the *)
(* helpers of app/runner.py.                                               *)
(***************************************************************************)
MaxOutputLen == 5    \* longest output text given to the context helpers

CxIdle ==
    [pc |-> "idle", helper |-> "engine", text |-> <<>>, mode |-> "full",
     code |-> NoneText, context |-> <<>>, prompt |-> <<>>]

CxChars == {Fence, "a", "=", " ", "\n"}

CxTexts == UNION {[1..n -> CxChars] : n \in 0..MaxOutputLen}

ContextModes == {"full", "code_only"}

\* the prompt of the step that follows the passing step
NextStepPrompt == <<"p", "\n">>

\* runs.py line 174, and line 82 of the next iteration
EngineContext ==
    /\ cx.pc = "input"
    /\ cx.helper = "engine"
    /\ LET context == context_from_output(OrEmpty(cx.text), cx.mode) IN
       cx' = [cx EXCEPT !.pc = "done", !.context = context,
                        !.prompt = inject_context(NextStepPrompt, context)]
    /\ UNCHANGED <<steps, runs, run_steps, task, gw_log, ev, workflows, http,
                   settings, llm>>

\* runner.py: _extract_first_code_block and _context_from_output on one text
RunnerContext ==
    /\ cx.pc = "input"
    /\ cx.helper = "runner"
    /\ LET context == runner_context_from_output(cx.text, cx.mode) IN
       cx' = [cx EXCEPT !.pc = "done",
                        !.code = extract_first_code_block(cx.text),
                        !.context = context,
                        !.prompt = inject_context(NextStepPrompt, OrEmpty(context))]
    /\ UNCHANGED <<steps, runs, run_steps, task, gw_log, ev, workflows, http,
                   settings, llm>>

(***************************************************************************)
(* The evaluator harness: one call of evaluate, directly or as the engine  *)
(* makes it for a stored step.                                             *)
(***************************************************************************)
EvIdle ==
    [pc |-> "idle", mode |-> "direct", text |-> <<>>, crit |-> EmptyDict,
     step |-> [criteria_type |-> None, criteria_value |-> NoneText],
     res |-> CriteriaResult(FALSE, <<>>)]

\* the characters of the texts given to evaluate
Chars == {"a", "A", "1", "{", "}", "\n"}

Texts == UNION {[1..n -> Chars] : n \in 0..MaxLen}

\* output_text: a text, or None
TextInputs == Texts \cup {NoneText}

Keywords == { <<>>, NoneText, <<"a">>, <<"a", "1">> }

Patterns == { <<>>, <<"a">>, <<"A">>, <<".">>, <<"(">>, <<"a", ".">> }

FlagStrings == { <<>>, <<"i">>, <<"s">>, <<"i", "m", "s">> }

Kinds == {None, "", "none", "bogus", "contains", "regex", "json_valid"}

\* criterion descriptors: dicts with and without the key "type"
Descriptors ==
    {EmptyDict, [keyword |-> <<"a">>]}
    \cup {[type |-> k] : k \in Kinds}
    \cup {[type |-> "contains", keyword |-> kw] : kw \in Keywords}
    \cup {[type |-> "regex", pattern |-> p] : p \in Patterns}
    \cup {[type |-> "regex", pattern |-> p, flags |-> f] : p \in Patterns, f \in FlagStrings}

\* the criteria columns of a stored step: any kind, any value
StepCriteria ==
    [criteria_type : Kinds,
     criteria_value : {NoneText, <<>>, <<"a">>, <<".">>, <<"(">>}]

EvaluateDirect ==
    /\ ev.pc = "input"
    /\ ev.mode = "direct"
    /\ ev' = [ev EXCEPT !.pc = "done", !.res = evaluate(ev.text, ev.crit)]
    /\ UNCHANGED <<steps, runs, run_steps, task, gw_log, cx, workflows, http, settings, llm>>

EvaluateStep ==
    /\ ev.pc = "input"
    /\ ev.mode = "step"
    /\ ev' = [ev EXCEPT !.pc = "done", !.res = StepEvaluate(ev.text, ev.step)]
    /\ UNCHANGED <<steps, runs, run_steps, task, gw_log, cx, workflows, http, settings, llm>>

InitEval ==
    /\ steps = {}
    /\ runs = <<>>
    /\ run_steps = <<>>
    /\ task = <<>>
    /\ gw_log = <<>>
    /\ workflows = {}
    /\ http = NoResponse
    /\ settings = AllSet
    /\ llm = LlmIdle
    /\ cx = CxIdle
    /\ \/ \E text \in TextInputs, crit \in Descriptors :
            ev = [EvIdle EXCEPT !.pc = "input", !.mode = "direct",
                                !.text = text, !.crit = crit]
       \/ \E text \in Texts \ {<<>>}, step \in StepCriteria :
            ev = [EvIdle EXCEPT !.pc = "input", !.mode = "step",
                                !.text = text, !.step = step]

NextEval == EvaluateDirect \/ EvaluateStep

SpecEval == InitEval /\ [][NextEval]_vars

(***************************************************************************)
(* The engine's specification: one stored workflow, started once.          *)
(***************************************************************************)
Init ==
    /\ \E orders \in StepOrderLists :
         \E cfgs \in [1..Len(orders) -> StepConfigs] :
            steps = {StepRow(k, orders[k], cfgs[k]) : k \in 1..Len(orders)}
    /\ runs = <<>>
    /\ run_steps = <<>>
    /\ task = <<>>
    /\ gw_log = <<>>
    /\ ev = EvIdle
    /\ workflows = {1}
    /\ http = NoResponse
    /\ settings = AllSet
    /\ llm = LlmIdle
    /\ cx = CxIdle

Next ==
    \/ run_workflow(1)
    \/ \E r \in DOMAIN task : Begin(r)
    \/ \E r \in DOMAIN task : Attempt(r)
    \/ \E r \in DOMAIN task : AfterLoop(r)
    \/ \E r \in DOMAIN task : Handler(r)

Spec == Init /\ [][Next]_vars

(***************************************************************************)
(* The engine started without UNBOUND_CHAT_URL or UNBOUND_API_KEY in its   *)
(* environment (config.py lines 8-9 then give the empty string).           *)
(***************************************************************************)
InitUnconfigured ==
    /\ \E orders \in StepOrderLists :
         \E cfgs \in [1..Len(orders) -> StepConfigs] :
            steps = {StepRow(k, orders[k], cfgs[k]) : k \in 1..Len(orders)}
    /\ runs = <<>>
    /\ run_steps = <<>>
    /\ task = <<>>
    /\ gw_log = <<>>
    /\ ev = EvIdle
    /\ workflows = {1}
    /\ http = NoResponse
    /\ settings \in SettingsChoices \ {AllSet}
    /\ llm = LlmIdle
    /\ cx = CxIdle

SpecUnconfigured == InitUnconfigured /\ [][Next]_vars

(***************************************************************************)
(* The gateway client's specification: one call_llm invocation under any   *)
(* settings, every request answered in any of the ways of HttpOutcomes.    *)
(***************************************************************************)
InitLlm ==
    /\ steps = {}
    /\ runs = <<>>
    /\ run_steps = <<>>
    /\ task = <<>>
    /\ gw_log = <<>>
    /\ ev = EvIdle
    /\ workflows = {}
    /\ http = NoResponse
    /\ settings \in SettingsChoices
    /\ llm = LlmIdle
    /\ cx = CxIdle

NextLlm == CallLlm \/ Post \/ Backoff

SpecLlm == InitLlm /\ [][NextLlm]_vars

(***************************************************************************)
(* The context helpers' specification: one passing output, one mode, one   *)
(* derivation.  The engine's last_output is a text that call_llm returned, *)
(* so it is not empty.                                                     *)
(***************************************************************************)
InitContext ==
    /\ steps = {}
    /\ runs = <<>>
    /\ run_steps = <<>>
    /\ task = <<>>
    /\ gw_log = <<>>
    /\ ev = EvIdle
    /\ workflows = {}
    /\ http = NoResponse
    /\ settings = AllSet
    /\ llm = LlmIdle
    /\ \/ \E text \in CxTexts \ {<<>>}, mode \in ContextModes :
            cx = [CxIdle EXCEPT !.pc = "input", !.helper = "engine",
                                !.text = text, !.mode = mode]
       \/ \E text \in CxTexts \cup {NoneText}, mode \in ContextModes :
            cx = [CxIdle EXCEPT !.pc = "input", !.helper = "runner",
                                !.text = text, !.mode = mode]

NextContext == EngineContext \/ RunnerContext

SpecContext == InitContext /\ [][NextContext]_vars

(***************************************************************************)
(* The endpoints' specification: workflows are created, replaced, deleted  *)
(* and run in any order, while the engine executes the one run started.    *)
(***************************************************************************)
InitCrud ==
    /\ steps = {}
    /\ runs = <<>>
    /\ run_steps = <<>>
    /\ task = <<>>
    /\ gw_log = <<>>
    /\ ev = EvIdle
    /\ workflows = {}
    /\ http = NoResponse
    /\ settings = AllSet
    /\ llm = LlmIdle
    /\ cx = CxIdle

NextCrud ==
    \/ \E payload \in Payloads : create_workflow(payload)
    \/ \E workflow_id \in RequestedIds, payload \in Payloads :
          update_workflow(workflow_id, payload)
    \/ \E workflow_id \in RequestedIds : delete_workflow(workflow_id)
    \/ \E workflow_id \in RequestedIds : run_workflow(workflow_id)
    \/ \E r \in DOMAIN task : Begin(r)
    \/ \E r \in DOMAIN task : Attempt(r)
    \/ \E r \in DOMAIN task : AfterLoop(r)
    \/ \E r \in DOMAIN task : Handler(r)

SpecCrud == InitCrud /\ [][NextCrud]_vars

(***************************************************************************)
(* The specification of concurrent runs: two stored one-step workflows,    *)
(* two runs started at any time, of the same workflow or of different      *)
(* ones; their coroutines interleave at every await and every commit.      *)
(***************************************************************************)
ConcRunIds == {1, 2}

ConcStepConfig(criteria) == [model |-> "kimi-k2p5", max_retries |-> 0, criteria |-> criteria]

ConcSteps ==
    { NewStep(1, 1, 1, ConcStepConfig(<<"contains", <<"a">>>>)),
      NewStep(2, 2, 2, ConcStepConfig(<<None, NoneText>>)) }

InitConc ==
    /\ steps = ConcSteps
    /\ runs = <<>>
    /\ run_steps = <<>>
    /\ task = <<>>
    /\ gw_log = <<>>
    /\ ev = EvIdle
    /\ workflows = {1, 2}
    /\ http = NoResponse
    /\ settings = AllSet
    /\ llm = LlmIdle
    /\ cx = CxIdle

NextConc ==
    \/ \E workflow_id \in workflows : StartRun(workflow_id, ConcRunIds)
    \/ \E r \in DOMAIN task : Begin(r)
    \/ \E r \in DOMAIN task : Attempt(r)
    \/ \E r \in DOMAIN task : AfterLoop(r)
    \/ \E r \in DOMAIN task : Handler(r)

SpecConc == InitConc /\ [][NextConc]_vars

(***************************************************************************)
(* What the claims speak of.                                               *)
(***************************************************************************)
\* the rows of run r, in the order they were written
RowsOfRun(r) == SelectSeq(run_steps, LAMBDA x : x.run_id = r)

\* the rows of run r for the step with id sid, in the order they were written
RowsOfStep(r, sid) == SelectSeq(run_steps, LAMBDA x : x.run_id = r /\ x.step_id = sid)

\* the gateway calls of run r, in order
CallsOfRun(r) == SelectSeq(gw_log, LAMBDA c : c.run_id = r)

HasPassed(r, sid) == \E k \in 1..Len(run_steps) :
    /\ run_steps[k].run_id = r
    /\ run_steps[k].step_id = sid
    /\ run_steps[k].status = "PASSED"

\* no exception reached the top-level handler of run r
NoInternalError(r) == task[r].exc = <<>>

\* maxRetries + 1 + networkBuffer, as the specification states it
AttemptBudget(s) ==
    s.max_retries + 1 + (IF s.model = "kimi-k2-instruct-0905" THEN 2 ELSE 1)

(***************************************************************************)
(* C1.  Every step gets at most max_retries + networkBuffer + 1 attempt    *)
(* rows in a run (networkBuffer 2 for kimi-k2-instruct-0905, else 1), the  *)
(* rows of a step are numbered 1..n in the order written, and a step that  *)
(* was attempted, never passed and met no internal error has exactly that  *)
(* many rows when the run is over.                                         *)
(***************************************************************************)
\* C1: at most the budget per step, numbered 1..n, exactly the budget on exhaustion
C1_AttemptBudget ==
    \A r \in DOMAIN runs : \A s \in steps :
        LET rows == RowsOfStep(r, s.id) IN
        /\ Len(rows) <= AttemptBudget(s)
        /\ \A k \in 1..Len(rows) : rows[k].attempt_no = k
        /\ ( /\ task[r].pc = "done"
             /\ NoInternalError(r)
             /\ rows # <<>>
             /\ ~HasPassed(r, s.id) )
           => Len(rows) = AttemptBudget(s)

\* C1, its case: a step of the instruct model with max_retries 2 used up its 5
\* attempts, gateway errors and criteria failures among them
C1_Witness ==
    \E r \in DOMAIN runs : \E s \in steps :
        LET rows == RowsOfStep(r, s.id) IN
        /\ task[r].pc = "done"
        /\ NoInternalError(r)
        /\ s.model = "kimi-k2-instruct-0905"
        /\ s.max_retries = 2
        /\ Len(rows) = 5
        /\ ~HasPassed(r, s.id)
        /\ \E k \in 1..Len(rows) : rows[k].status = "ERROR"
        /\ \E k \in 1..Len(rows) : rows[k].status = "FAILED"

(***************************************************************************)
(* C2.  Gateway errors and criteria failures share one budget: a one-step  *)
(* run whose gateway raises a classified error on its first k calls        *)
(* (k below the step's budget) and then returns an output that passes the  *)
(* criterion writes k ERROR rows and one PASSED row and ends COMPLETED.    *)
(***************************************************************************)
\* the gateway of the finished one-step run r failed k times, then gave a passing
\* output
C2_Scenario(r) ==
    LET g == CallsOfRun(r) IN
    /\ task[r].pc = "done"
    /\ Len(task[r].steps) = 1
    /\ g # <<>>
    /\ Len(g) - 1 < AttemptBudget(task[r].steps[1])
    /\ \A j \in 1..(Len(g) - 1) : g[j].kind = "UnboundError"
    /\ g[Len(g)].kind = "text"
    /\ LET res == StepEvaluate(g[Len(g)].text, task[r].steps[1])
       IN ~res.raised /\ res.passed

\* k ERROR rows, then one PASSED row, and the run COMPLETED
C2_Outcome(r) ==
    LET rows == RowsOfRun(r)
        k == Len(CallsOfRun(r)) - 1
    IN /\ Len(rows) = k + 1
       /\ \A j \in 1..k : rows[j].status = "ERROR"
       /\ rows[k + 1].status = "PASSED"
       /\ runs[r].status = "COMPLETED"

C3_Exhausted(r, s) ==
    /\ Len(RowsOfStep(r, s.id)) = AttemptBudget(s)
    /\ ~HasPassed(r, s.id)

\* C3: an exhausted step halts the run: no row of a later step, FAILED at the end
C3_HardHalt ==
    \A r \in DOMAIN runs : \A s \in steps :
        C3_Exhausted(r, s) =>
            /\ \A k \in 1..Len(run_steps) :
                   run_steps[k].run_id = r =>
                       \A later \in steps :
                           later.step_order > s.step_order
                               => run_steps[k].step_id # later.id
            /\ task[r].pc = "done" =>
                   (runs[r].status = "FAILED" /\ runs[r].ended_at # "NULL")

(***************************************************************************)
(* C4.  A run is COMPLETED only if every step of the workflow has a PASSED *)
(* row in it, the PASSED rows lying in ascending step order; and a run     *)
(* that is over, in which every step passed and no internal error          *)
(* occurred, is COMPLETED with ended_at set.                               *)
(***************************************************************************)
C4_PassedInOrder(r) ==
    LET rows == RowsOfRun(r) IN
    \A a, b \in 1..Len(rows) :
        (a < b /\ rows[a].status = "PASSED" /\ rows[b].status = "PASSED")
            => rows[a].step_order < rows[b].step_order

\* C4: COMPLETED only with every step PASSED in order; all passed gives COMPLETED
C4_Completed ==
    \A r \in DOMAIN runs :
        /\ runs[r].status = "COMPLETED" =>
               /\ \A s \in steps : HasPassed(r, s.id)
               /\ C4_PassedInOrder(r)
        /\ ( /\ task[r].pc = "done"
             /\ NoInternalError(r)
             /\ \A s \in steps : HasPassed(r, s.id) )
           => (runs[r].status = "COMPLETED" /\ runs[r].ended_at # "NULL")

\* C4, its case: a two-step run ended COMPLETED after at least one retry
C4_Witness ==
    \E r \in DOMAIN runs :
        /\ runs[r].status = "COMPLETED"
        /\ Cardinality(steps) = 2
        /\ \A s \in steps : HasPassed(r, s.id)
        /\ Len(RowsOfRun(r)) > 2

(***************************************************************************)
(* C5.  Terminal run states are final: a stored status COMPLETED or FAILED *)
(* never changes again and no row is added to that run afterwards; and     *)
(* ended_at is NULL exactly while the status is RUNNING.                   *)
(***************************************************************************)
C5_EndedIffNotRunning ==
    \A r \in DOMAIN runs : (runs[r].ended_at = "NULL") <=> (runs[r].status = "RUNNING")

C5_Final ==
    \A r \in DOMAIN runs :
        runs[r].status \in {"COMPLETED", "FAILED"} =>
            /\ runs'[r] = runs[r]
            /\ SelectSeq(run_steps', LAMBDA x : x.run_id = r) = RowsOfRun(r)

\* C5: ended_at is NULL exactly while RUNNING, and a terminal run never changes
C5_TerminalIsFinal == [](C5_EndedIffNotRunning) /\ [][C5_Final]_vars

\* C5, its case: a run stored as FAILED by the failure branch, its coroutine returned
C5_Witness ==
    \E r \in DOMAIN runs :
        /\ runs[r].status = "FAILED"
        /\ runs[r].ended_at = "utcnow"
        /\ task[r].pc = "done"
        /\ NoInternalError(r)

(***************************************************************************)
(* C6.  Every run the engine starts ends COMPLETED or FAILED: when the     *)
(* coroutine has returned the run is not RUNNING, also after an unexpected *)
(* fault such as a storage failure on commit.                              *)
(***************************************************************************)
\* C6: a run whose coroutine has returned is COMPLETED or FAILED
C6_EndsTerminal ==
    \A r \in DOMAIN runs :
        task[r].pc = "done" => runs[r].status \in {"COMPLETED", "FAILED"}

(***************************************************************************)
(* C7.  When an exception that is no classified gateway error escapes, the *)
(* handler leaves the run FAILED with ended_at set and exactly one         *)
(* synthetic row (ERROR, step_order 999999, attempt_no 1, no step id, the  *)
(* exception's text) after the run's earlier rows.                         *)
(***************************************************************************)
\* C7: after an escaped exception the run is FAILED with one synthetic last row
C7_HandlerRecords ==
    \A r \in DOMAIN runs :
        (task[r].pc = "done" /\ ~NoInternalError(r)) =>
            LET rows == RowsOfRun(r) IN
            /\ runs[r].status = "FAILED"
            /\ runs[r].ended_at # "NULL"
            /\ rows # <<>>
            /\ rows[Len(rows)] =
                   [run_id |-> r, step_id |-> NullId, step_order |-> 999999,
                    status |-> "ERROR", attempt_no |-> 1,
                    prompt_used |-> <<"(system)">>, output |-> NoneText,
                    criteria_result |-> NoneText, error |-> task[r].exc]
            /\ \A k \in 1..(Len(rows) - 1) : rows[k].step_id # NullId

(***************************************************************************)
(* C8.  evaluate is total: for every output text and every criterion       *)
(* descriptor it returns a (passed, reason) result and never raises.       *)
(***************************************************************************)
\* C8: a finished evaluate call has returned a result, not raised
C8_EvaluateTotal == ev.pc = "done" => ~ev.res.raised

(***************************************************************************)
(* C9.  evaluate passes with reason "no_criteria" for every output text    *)
(* when the criterion is absent or empty or its kind is none: the          *)
(* descriptor {"type": None} of _build_criteria, or the kind "none".       *)
(***************************************************************************)
C9_NoCriterion(crit) ==
    \/ "type" \notin DOMAIN crit
    \/ crit["type"] \in {None, "none"}

\* C9: a direct evaluate call without a criterion passes with no_criteria
C9_NoCriteriaPasses ==
    (ev.pc = "done" /\ ev.mode = "direct" /\ C9_NoCriterion(ev.crit))
        => ev.res = CriteriaResult(TRUE, <<"no_criteria">>)

(***************************************************************************)
(* C10.  A kind that is not contains, regex, json_valid or none never      *)
(* passes: evaluate returns passed = FALSE with a reason naming the kind,  *)
(* for every output text, called directly or by the engine for a stored    *)
(* step whose criteria_type is that kind.                                  *)
(***************************************************************************)
C10_UnknownKind(k) == k \notin {"contains", "regex", "json_valid", "none", None}

C10_Fails(k) ==
    /\ ~ev.res.raised
    /\ ~ev.res.passed
    /\ ev.res.reason = <<"unknown criteria type: ", k>>

\* C10: an unknown kind fails with a reason naming it, directly and through the engine
C10_UnknownKindFails ==
    /\ ( /\ ev.pc = "done"
         /\ ev.mode = "direct"
         /\ "type" \in DOMAIN ev.crit
         /\ C10_UnknownKind(ev.crit["type"]) )
       => C10_Fails(ev.crit["type"])
    /\ ( /\ ev.pc = "done"
         /\ ev.mode = "step"
         /\ TruthyKind(ev.step.criteria_type)
         /\ C10_UnknownKind(ev.step.criteria_type) )
       => C10_Fails(ev.step.criteria_type)

\* C10, its case: the engine evaluated an output for a stored step of kind "bogus"
C10_Witness ==
    /\ ev.pc = "done"
    /\ ev.mode = "step"
    /\ ev.step.criteria_type = "bogus"
    /\ ~ev.res.passed

(***************************************************************************)
(* C11.  The contains criterion passes exactly when its keyword is         *)
(* non-empty and occurs in the output text as a literal substring; with    *)
(* the keyword missing or empty it fails with the reason                   *)
(* "contains: missing keyword", whatever the text.                         *)
(***************************************************************************)
\* the keyword of a finished contains evaluation, <<>> when the descriptor has none
C11_Keyword ==
    IF ev.mode = "direct"
    THEN IF "keyword" \in DOMAIN ev.crit THEN ev.crit["keyword"] ELSE <<>>
    ELSE ev.step.criteria_value

C11_IsContains ==
    /\ ev.pc = "done"
    /\ \/ ev.mode = "direct" /\ "type" \in DOMAIN ev.crit /\ ev.crit["type"] = "contains"
       \/ ev.mode = "step" /\ ev.step.criteria_type = "contains"

C11_Occurs(kw, text) ==
    \E from \in 1..Len(text), to \in 1..Len(text) : SubSeq(text, from, to) = kw

\* C11: a contains evaluation passes iff the keyword is non-empty and a substring
\* of the output, and a missing or empty keyword gives "contains: missing keyword"
C11_ContainsIffSubstring ==
    C11_IsContains =>
        /\ ~ev.res.raised
        /\ ev.res.passed <=>
              ( /\ C11_Keyword \notin {NoneText, <<>>}
                /\ ev.text # NoneText
                /\ C11_Occurs(C11_Keyword, ev.text) )
        /\ C11_Keyword \in {NoneText, <<>>} =>
              ev.res.reason = <<"contains: missing keyword">>

\* C11, its case: the keyword occurs in the output, but not at its start
C11_Witness ==
    /\ C11_IsContains
    /\ ev.text = <<"1", "a">>
    /\ C11_Keyword = <<"a">>
    /\ ev.res.passed

(***************************************************************************)
(* C12.  For every run, at every point of its execution, get_run's read of *)
(* its rows, sorted by step_order and then attempt_no, gives them in       *)
(* exactly the order in which they were written, and the engine never      *)
(* modifies or deletes a row it has written.                               *)
(***************************************************************************)
C12_ReadIsWriteOrder == \A r \in DOMAIN runs : get_run(r) = {RowsOfRun(r)}

C12_AppendOnly ==
    /\ Len(run_steps') >= Len(run_steps)
    /\ SubSeq(run_steps', 1, Len(run_steps)) = run_steps

\* C12: the sorted read is the write order in every state, and rows are only appended
C12_SortedReadIsWriteOrder == [](C12_ReadIsWriteOrder) /\ [][C12_AppendOnly]_vars

(***************************************************************************)
(* C13.  The synthetic internal-error row sorts after the rows of all real *)
(* steps of its run, for every workflow the endpoints accept (step_order   *)
(* is any integer >= 1).                                                   *)
(***************************************************************************)
\* C13: every real row of a run precedes the run's synthetic row in get_run's order
C13_SyntheticSortsLast ==
    \A a \in DOMAIN run_steps, b \in DOMAIN run_steps :
        ( /\ run_steps[a].run_id = run_steps[b].run_id
          /\ run_steps[a].step_id = NullId
          /\ run_steps[b].step_id # NullId )
        => RowKeyLess(run_steps[b], run_steps[a])

(***************************************************************************)
(* C14.  run_workflow rejects, creating no run and scheduling no task,     *)
(* when the workflow does not exist or has no steps; the run, with status  *)
(* RUNNING, is created only after both checks have passed.                 *)
(***************************************************************************)
C14_Startable(workflow_id) ==
    /\ workflow_id \in workflows
    /\ \E s \in steps : s.workflow_id = workflow_id

\* a run_workflow call for a workflow that is missing or has no steps is answered
\* 404 or 400 and leaves runs and tasks as they were
C14_Rejected ==
    \A workflow_id \in RequestedIds :
        (run_workflow(workflow_id) /\ ~C14_Startable(workflow_id))
            => /\ runs' = runs
               /\ task' = task
               /\ http'.status = IF workflow_id \in workflows THEN 400 ELSE 404

\* a run or a task comes into being only as the RUNNING run of a workflow that
\* exists and has a step, together with its task
C14_CreatedAfterChecks ==
    (runs' # runs \/ Len(task') # Len(task))
        => \/ \E workflow_id \in RequestedIds :
                /\ C14_Startable(workflow_id)
                /\ Len(runs') = Len(runs) + 1
                /\ SubSeq(runs', 1, Len(runs)) = runs
                /\ runs'[Len(runs')].workflow_id = workflow_id
                /\ runs'[Len(runs')].status = "RUNNING"
                /\ Len(task') = Len(runs')
                /\ task'[Len(task')].pc = "start"
                /\ task'[Len(task')].workflow_id = workflow_id
           \/ Len(runs') = Len(runs) /\ Len(task') = Len(task)

\* C14: run_workflow rejects a missing or empty workflow without a run or a task,
\* and creates the RUNNING run only when both checks pass
C14_RejectsBeforeCreating == [][C14_Rejected /\ C14_CreatedAfterChecks]_vars

\* C14, its case: run_workflow was refused for a stored workflow without steps
C14_Witness ==
    /\ http = Response("run_workflow", 400)
    /\ 1 \in workflows
    /\ runs = <<>>
    /\ task = <<>>

(***************************************************************************)
(* C15.  A workflow edit (update_workflow replacing the steps, or          *)
(* delete_workflow) that interleaves with a run does not change the run:   *)
(* the run executes the steps that existed when it began, its rows carry   *)
(* those steps' orders, and the edit does not make the run fail.           *)
(***************************************************************************)
\* C15: a run works on the steps its workflow had when the run was created
C15_RunsItsSnapshot ==
    \A r \in DOMAIN task :
        /\ task[r].pc # "start" => task[r].steps = task[r].began_with
        /\ \A k \in DOMAIN run_steps :
              (run_steps[k].run_id = r /\ run_steps[k].step_id # NullId)
                  => \E j \in DOMAIN task[r].began_with :
                        /\ task[r].began_with[j].id = run_steps[k].step_id
                        /\ task[r].began_with[j].step_order = run_steps[k].step_order
        /\ task[r].exc # ObjectDeleted

(***************************************************************************)
(* C20.  After any sequence of create_workflow, update_workflow and        *)
(* delete_workflow calls the steps of every stored workflow have pairwise  *)
(* distinct step_order values; a create or update body with a duplicate    *)
(* step_order is rejected and leaves the stored workflows and steps        *)
(* unchanged.                                                              *)
(***************************************************************************)
C20_Unique ==
    \A s1 \in steps, s2 \in steps :
        (s1.workflow_id = s2.workflow_id /\ s1.step_order = s2.step_order) => s1 = s2

C20_HasDuplicate(payload) ==
    \E j \in DOMAIN payload, k \in DOMAIN payload :
        j # k /\ payload[j].step_order = payload[k].step_order

C20_DuplicateRejected ==
    \A payload \in Payloads :
        ( /\ C20_HasDuplicate(payload)
          /\ \/ create_workflow(payload)
             \/ \E workflow_id \in RequestedIds : update_workflow(workflow_id, payload) )
        => /\ http'.status = 400
           /\ workflows' = workflows
           /\ steps' = steps

\* C20: stored step orders are unique per workflow, and a duplicate is refused
\* without a change to the tables
C20_UniqueStepOrders == [](C20_Unique) /\ [][C20_DuplicateRejected]_vars

\* C20, its case: an update with a duplicate step_order was refused while the
\* workflow has steps
C20_Witness ==
    /\ http = Response("update_workflow", 400)
    /\ \E s \in steps : s.workflow_id = 1

(***************************************************************************)
(* C16.  Under every interleaving of two concurrent runs, of the same      *)
(* workflow or of different ones, the rows of a run carry only its own run *)
(* id, its attempt numbers per step are 1..n without gaps or duplicates,   *)
(* and its context and final status depend only on its own gateway         *)
(* results.                                                                *)
(***************************************************************************)
\* the rows of run r written for steps, without the synthetic row
C16_StepRows(r) ==
    SelectSeq(run_steps, LAMBDA x : x.run_id = r /\ x.step_id # NullId)

\* the row is the record of the gateway call: same step, attempt and prompt, and
\* the status and texts that the call's result gives for the step
C16_RowOfCall(r, row, call) ==
    /\ row.step_order = call.step_order
    /\ row.attempt_no = call.attempt_no
    /\ row.prompt_used = call.prompt
    /\ \E s \in steps :
          /\ s.id = row.step_id
          /\ s.workflow_id = runs[r].workflow_id
          /\ s.step_order = row.step_order
          /\ IF call.kind = "text"
             THEN /\ row.output = call.text
                  /\ row.status = IF StepEvaluate(call.text, s).passed
                                  THEN "PASSED" ELSE "FAILED"
             ELSE row.status = "ERROR" /\ row.error = call.text

\* the rows under run r's id are the records of run r's own gateway calls, in order
C16_OwnRows(r) ==
    LET rows == C16_StepRows(r)
        calls == CallsOfRun(r)
    IN /\ Len(rows) <= Len(calls)
       /\ Len(rows) >= Len(calls) - 1
       /\ \A k \in 1..Len(rows) : C16_RowOfCall(r, rows[k], calls[k])

C16_Numbered(r) ==
    \A s \in steps :
        LET rows == RowsOfStep(r, s.id)
        IN \A k \in 1..Len(rows) : rows[k].attempt_no = k

\* the context of a finished run is the last output its own calls had accepted,
\* and the run is COMPLETED exactly when its last call was accepted
C16_OwnContext(r) ==
    (task[r].pc = "done" /\ NoInternalError(r)) =>
        LET rows == C16_StepRows(r)
            passed == SelectSeq(rows, LAMBDA x : x.status = "PASSED")
        IN /\ task[r].context = IF passed = <<>> THEN <<>> ELSE passed[Len(passed)].output
           /\ runs[r].status = IF rows # <<>> /\ rows[Len(rows)].status = "PASSED"
                               THEN "COMPLETED" ELSE "FAILED"

\* two finished runs of one workflow whose gateway calls gave the same results
\* ended alike
C16_SameResultsSameEnd ==
    \A r1 \in DOMAIN task, r2 \in DOMAIN task :
        ( /\ task[r1].pc = "done" /\ NoInternalError(r1)
          /\ task[r2].pc = "done" /\ NoInternalError(r2)
          /\ runs[r1].workflow_id = runs[r2].workflow_id
          /\ Len(CallsOfRun(r1)) = Len(CallsOfRun(r2))
          /\ \A k \in 1..Len(CallsOfRun(r1)) :
                /\ CallsOfRun(r1)[k].kind = CallsOfRun(r2)[k].kind
                /\ CallsOfRun(r1)[k].text = CallsOfRun(r2)[k].text )
        => /\ runs[r1].status = runs[r2].status
           /\ task[r1].context = task[r2].context
           /\ Len(C16_StepRows(r1)) = Len(C16_StepRows(r2))

\* C16: each run's rows are its own, numbered 1..n per step, and its context and
\* final status follow from its own gateway results
C16_RunsAreIsolated ==
    /\ \A k \in DOMAIN run_steps : run_steps[k].run_id \in DOMAIN runs
    /\ \A r \in DOMAIN task :
          /\ C16_OwnRows(r)
          /\ C16_Numbered(r)
          /\ C16_OwnContext(r)
    /\ C16_SameResultsSameEnd

\* C16, its case: two runs of the same workflow wrote their rows in turns, one
\* ended COMPLETED and the other FAILED
C16_Witness ==
    /\ Len(runs) = 2
    /\ runs[1].workflow_id = runs[2].workflow_id
    /\ task[1].pc = "done" /\ task[2].pc = "done"
    /\ runs[1].status = "FAILED" /\ runs[2].status = "COMPLETED"
    /\ NoInternalError(1) /\ NoInternalError(2)
    /\ \E i \in DOMAIN run_steps, j \in DOMAIN run_steps, k \in DOMAIN run_steps :
          /\ i < j /\ j < k
          /\ run_steps[i].run_id = 1
          /\ run_steps[j].run_id = 2
          /\ run_steps[k].run_id = 1

(***************************************************************************)
(* C17.  Inside call_llm a non-transient gateway error (an HTTP status of  *)
(* 400 or more that is not 429, 502, 503 or 504, or a response from which  *)
(* no non-empty text can be extracted) is raised on the attempt where it   *)
(* occurs: no further request is made and no backoff sleep is taken.       *)
(***************************************************************************)
C17_NonTransient(o) ==
    /\ o.kind = "response"
    /\ \/ o.status >= 400 /\ o.status \notin {429, 502, 503, 504}
       \/ o.status < 400 /\ o.body \notin {"content", "output"}

\* C17: the request that met a non-transient error is the call's last, the call
\* raises, and it has not slept for that request
C17_RaisedAtOnce ==
    \A n \in DOMAIN llm.requests :
        C17_NonTransient(llm.requests[n])
            => /\ Len(llm.requests) = n
               /\ Len(llm.sleeps) < n
               /\ llm.pc = "raised"

(***************************************************************************)
(* C18.  A missing endpoint URL or API key is fatal and not retryable:     *)
(* call_llm raises before any HTTP request and without sleeping, and the   *)
(* step that hit the failure gets no further attempt.                      *)
(***************************************************************************)
C18_IsConfigError(call) ==
    /\ call.kind = "UnboundError"
    /\ call.text \in {<<"UNBOUND_CHAT_URL is missing in .env">>,
                      <<"UNBOUND_API_KEY is missing in .env">>}

\* C18: after a call_llm that failed for a missing setting, the engine makes no
\* further call for that step of that run
C18_ConfigErrorNotRetried ==
    \A j \in DOMAIN gw_log, k \in DOMAIN gw_log :
        (j < k /\ C18_IsConfigError(gw_log[j]))
            => ~( /\ gw_log[k].run_id = gw_log[j].run_id
                  /\ gw_log[k].step_order = gw_log[j].step_order )

(***************************************************************************)
(* C19.  One call_llm invocation makes at most 3 HTTP requests.  A         *)
(* transient condition (read or connect timeout, read error, remote        *)
(* protocol error, HTTP 429/502/503/504) on attempt n < 3 is followed by a *)
(* backoff that increases with n and then by attempt n + 1; when all 3     *)
(* attempts meet transient conditions the call raises an UnboundError; the *)
(* first successful attempt returns its text and no request follows it.    *)
(***************************************************************************)
C19_Transient(o) ==
    \/ o.kind = "exception"
          /\ o.exc \in {"ReadTimeout", "ConnectTimeout", "ReadError", "RemoteProtocolError"}
    \/ o.kind = "response" /\ o.status \in {429, 502, 503, 504}

C19_Success(o) ==
    o.kind = "response" /\ o.status < 400 /\ o.body \in {"content", "output"}

C19_Over == llm.pc \in {"returned", "raised"}

\* C19: at most 3 requests; a transient condition before the third attempt leads
\* through a growing backoff to the next attempt; three of them end in an
\* UnboundError; a success returns its text at once
C19_BoundedRetries ==
    /\ Len(llm.requests) <= 3
    /\ \A n \in DOMAIN llm.requests :
          /\ (C19_Transient(llm.requests[n]) /\ n < 3)
                => /\ ~(C19_Over /\ Len(llm.requests) = n)
                   /\ Len(llm.requests) > n => Len(llm.sleeps) >= n
          /\ C19_Success(llm.requests[n])
                => /\ Len(llm.requests) = n
                   /\ llm.pc = "returned"
                   /\ llm.result = [kind |-> "text", text |-> <<"a">>]
                   /\ Len(llm.sleeps) = n - 1
    /\ \A n \in DOMAIN llm.sleeps :
          /\ llm.sleeps[n] > 0
          /\ n > 1 => llm.sleeps[n] > llm.sleeps[n - 1]
    /\ ( /\ C19_Over
         /\ Len(llm.requests) = 3
         /\ \A n \in 1..3 : C19_Transient(llm.requests[n]) )
       => /\ llm.pc = "raised"
          /\ llm.result.kind = "UnboundError"

\* C19, its case: three transient conditions of different kinds, the call over
C19_Witness ==
    /\ llm.pc = "raised"
    /\ Len(llm.requests) = 3
    /\ llm.requests[1].exc = "ReadTimeout"
    /\ llm.requests[2].status = 503
    /\ llm.requests[3].exc = "RemoteProtocolError"
    /\ llm.sleeps = <<850, 1200, 2050>>

(***************************************************************************)
(* C21.  When a step passes, the context of the next step is derived from  *)
(* the passing output by the step's context_mode: the output itself for    *)
(* "full"; for "code_only" the first fenced block re-wrapped in a python   *)
(* fence, the whole output when it has no fence.  The next prompt is built *)
(* from that context.                                                      *)
(***************************************************************************)
\* what stands between the first fence of a text and the fence after it
FirstBlock(text) ==
    LET rest == Drop(text, FindFence(text)) IN
    SubSeq(rest, 1, FindFence(rest) - 1)

HasClosedBlock(text) ==
    /\ FindFence(text) # 0
    /\ FindFence(Drop(text, FindFence(text))) # 0

\* a closed block with no language tag and some content on the following lines
C21_PlainBlock(text) ==
    /\ HasClosedBlock(text)
    /\ FirstBlock(text) # <<>>
    /\ Head(FirstBlock(text)) = "\n"
    /\ Strip(FirstBlock(text)) # <<>>

\* C21: the engine's next context is the output for mode full and for an output
\* without fence, the re-wrapped first block for mode code_only; the next prompt
\* is built from it
C21_ContextIsDerived ==
    (cx.pc = "done" /\ cx.helper = "engine") =>
        /\ cx.mode = "full" => cx.context = cx.text
        /\ (cx.mode = "code_only" /\ FindFence(cx.text) = 0) => cx.context = cx.text
        /\ (cx.mode = "code_only" /\ C21_PlainBlock(cx.text))
               => cx.context = PythonFence(Strip(FirstBlock(cx.text)))
        /\ cx.prompt = inject_context(NextStepPrompt, cx.context)

(***************************************************************************)
(* C24.  Round trip of code_only: for a text with a closed fenced block,   *)
(* with or without a language tag, the content on the line of the fence or *)
(* on the following lines, _extract_first_code_block gives the content of  *)
(* the first block stripped, _context_from_output re-wraps just that, and  *)
(* the result is not empty.                                                *)
(***************************************************************************)
\* the readings of a block's start: no language tag, or its leading word as tag
C24_TagLengths(block) == {0, PrefixLen(block, WordChars)}

\* C24: under some reading of the block's start the extracted code is the
\* block's content stripped and the context is that code in a python fence
C24_RoundTrip ==
    ( /\ cx.pc = "done"
      /\ cx.helper = "runner"
      /\ cx.mode = "code_only"
      /\ HasClosedBlock(cx.text) )
    => \E tag \in C24_TagLengths(FirstBlock(cx.text)) :
           /\ cx.code = Strip(Drop(FirstBlock(cx.text), tag))
           /\ cx.context = PythonFence(cx.code)
           /\ cx.context # <<>>

(***************************************************************************)
(* C22.  Every row the engine writes for a real step: status ERROR implies *)
(* output and criteria_result NULL and error not NULL; status PASSED or    *)
(* FAILED implies output and criteria_result not NULL and error NULL; the  *)
(* status is PASSED exactly when the criteria evaluation of that output    *)
(* passed; prompt_used is the prompt sent on that attempt.                 *)
(***************************************************************************)
C22_Columns(row) ==
    IF row.status = "ERROR"
    THEN /\ row.output = NoneText
         /\ row.criteria_result = NoneText
         /\ row.error # NoneText
    ELSE /\ row.status \in {"PASSED", "FAILED"}
         /\ row.output # NoneText
         /\ row.criteria_result # NoneText
         /\ row.error = NoneText

\* the row against the gateway call of its attempt
C22_Verdict(row, call) ==
    /\ row.prompt_used = call.prompt
    /\ row.attempt_no = call.attempt_no
    /\ row.status = "ERROR" <=> call.kind = "UnboundError"
    /\ row.status # "ERROR" =>
          \E s \in steps :
              /\ s.id = row.step_id
              /\ row.output = call.text
              /\ \E res \in {StepEvaluate(row.output, s)} :
                    /\ row.criteria_result = res.reason
                    /\ row.status = "PASSED" <=> res.passed

\* C22: every step row has the columns of its status, the verdict of the
\* evaluation of its output, and the prompt that was sent
C22_AttemptRecords ==
    \A r \in DOMAIN runs :
        \E rows \in {C16_StepRows(r)}, calls \in {CallsOfRun(r)} :
            \A k \in 1..Len(rows) :
               /\ C22_Columns(rows[k])
               /\ k <= Len(calls)
               /\ C22_Verdict(rows[k], calls[k])

\* C22, its case: a run wrote an ERROR row, a FAILED row and a PASSED row
C22_Witness ==
    \E r \in DOMAIN runs :
        LET rows == C16_StepRows(r) IN
        /\ \E k \in 1..Len(rows) : rows[k].status = "ERROR"
        /\ \E k \in 1..Len(rows) : rows[k].status = "FAILED"
        /\ \E k \in 1..Len(rows) : rows[k].status = "PASSED"

(***************************************************************************)
(* C23.  In the attempt loop a backoff sleep is taken only after an        *)
(* attempt that ended in a gateway error (status ERROR), for 0.8 s times   *)
(* attempt_no; after an attempt whose criteria failed (status FAILED) the  *)
(* next attempt starts with no sleep in between.                           *)
(***************************************************************************)
\* C23: an attempt is followed by a sleep exactly when its ERROR row was stored,
\* and the sleep lasts 800 ms times the attempt's number
C23_BackoffAfterErrorOnly ==
    \A r \in DOMAIN runs :
        \E rows \in {C16_StepRows(r)}, calls \in {CallsOfRun(r)} :
           \A k \in 1..Len(calls) :
               IF k <= Len(rows) /\ rows[k].status = "ERROR"
               THEN calls[k].sleep = 800 * rows[k].attempt_no
               ELSE calls[k].sleep = 0

\* C23, its case: a step's first attempt failed its criteria and the second
\* attempt followed with no sleep; the second ended in a gateway error and was
\* followed by a sleep of 1600 ms before the third attempt
C23_Witness ==
    \E r \in DOMAIN runs :
        LET rows == C16_StepRows(r)
            calls == CallsOfRun(r)
        IN /\ Len(rows) >= 2
           /\ Len(calls) >= 3
           /\ rows[1].status = "FAILED"
           /\ calls[1].sleep = 0
           /\ rows[2].status = "ERROR"
           /\ rows[2].attempt_no = 2
           /\ calls[2].sleep = 1600
           /\ calls[3].attempt_no = 3

(***************************************************************************)
(* C25.  If the engine finds no step for the run's workflow (the steps     *)
(* were removed after run_workflow's check), it marks the run FAILED with  *)
(* ended_at set, makes no gateway call and writes no row.                  *)
(***************************************************************************)
\* the coroutine of run r loaded the steps and found none
C25_FoundNoSteps(r) == task[r].pc # "start" /\ task[r].steps = <<>>

C26_ContextHeader == "### CONTEXT (output from previous step)\n"

\* the step takes the running context of run r from old to new only after a pass
C26_ContextKept(r) ==
    task'[r].context # task[r].context =>
        /\ task[r].pc = "after_loop"
        /\ task[r].step_passed
        /\ task'[r].context = task[r].last_output

\* the gateway call that the step adds for run r sends the prompt of the step in
\* hand with the running context, the prompt of the earlier calls of that step
C26_CallSent(r) ==
    ( /\ Len(gw_log') = Len(gw_log) + 1
      /\ gw_log'[Len(gw_log')].run_id = r )
    => \E call \in {gw_log'[Len(gw_log')]}, step \in {task[r].steps[task[r].i]} :
           /\ call.prompt = inject_context(step.prompt, task[r].context)
           /\ \A k \in 1..Len(gw_log) :
                  (gw_log[k].run_id = r /\ gw_log[k].step_order = call.step_order)
                      => gw_log[k].prompt = call.prompt
           /\ (\A k \in 1..Len(gw_log) : gw_log[k].run_id # r) =>
                  /\ call.prompt = Strip(step.prompt)
                  /\ \A j \in 1..Len(call.prompt) : call.prompt[j] # C26_ContextHeader

\* C26: every step of the system keeps the running context unless a step of the
\* run passed, and every call sends its step's one prompt, the first call of a
\* run the stripped prompt alone
C26_PromptPerStep ==
    [][\A r \in DOMAIN task : C26_ContextKept(r) /\ C26_CallSent(r)]_vars

\* C26, its case: a step was attempted three times after an earlier step had
\* passed, with an ERROR and a FAILED attempt among the three
C26_Witness ==
    \E r \in DOMAIN runs :
        LET calls == CallsOfRun(r)
            rows == C16_StepRows(r)
        IN /\ Len(calls) >= 4
           /\ Len(rows) >= 3
           /\ rows[1].status = "PASSED"
           /\ rows[2].status = "ERROR"
           /\ rows[3].status = "FAILED"
           /\ calls[4].step_order = calls[2].step_order
           /\ calls[4].prompt # Strip(<<"p", "\n">>)

(***************************************************************************)
(* C27.  In every reachable state of a run each step has at most one       *)
(* PASSED row, that row has the highest attempt_no of the step, and a step *)
(* has a row only if every step earlier in the order has a PASSED row.     *)
(***************************************************************************)
\* C27: one PASSED row a step at most, the step's last; no row of a step before
\* the steps of lower order passed
C27_PassedOnceAndInOrder ==
    \A r \in DOMAIN runs : \A s \in steps :
        LET rows == RowsOfStep(r, s.id) IN
        /\ \A k \in 1..Len(rows) :
               rows[k].status = "PASSED" =>
                   /\ k = Len(rows)
                   /\ \A j \in 1..Len(rows) : rows[j].attempt_no <= rows[k].attempt_no
        /\ rows # <<>> =>
               \A earlier \in steps :
                   ( /\ earlier.workflow_id = s.workflow_id
                     /\ earlier.step_order < s.step_order )
                   => HasPassed(r, earlier.id)

\* C27, its case: the second of two steps has rows, and the first passed on its
\* third attempt
C27_Witness ==
    \E r \in DOMAIN runs : \E s1, s2 \in steps :
        /\ s1.step_order < s2.step_order
        /\ RowsOfStep(r, s2.id) # <<>>
        /\ Len(RowsOfStep(r, s1.id)) = 3
        /\ RowsOfStep(r, s1.id)[3].status = "PASSED"

(***************************************************************************)
(* C28.  Only UnboundError is retried by the attempt loop: any other       *)
(* exception raised during an attempt, by call_llm or by evaluate, ends    *)
(* the run at once as FAILED through the top-level handler, with no row    *)
(* for that attempt, no further attempt of the step and no later step.     *)
(***************************************************************************)
\* an exception left the attempt loop of run r during an attempt: the run's
\* last gateway call has no row
C28_EscapedFromAttempt(r) ==
    /\ task[r].exc # <<>>
    /\ Len(CallsOfRun(r)) = Len(C16_StepRows(r)) + 1

\* no attempt follows the escape: the coroutine is at the handler or over
C28_NoFurtherAttempt(r) == task[r].pc \in {"handler", "done"}

\* C28: after an exception other than UnboundError left an attempt, nothing more
\* is attempted and the run, once over, is FAILED with ended_at set
C28_OtherExceptionEndsRun ==
    \A r \in DOMAIN runs :
        C28_EscapedFromAttempt(r) =>
            /\ C28_NoFurtherAttempt(r)
            /\ task[r].pc = "done" =>
                   /\ runs[r].status = "FAILED"
                   /\ runs[r].ended_at # "NULL"

====
